---- MODULE Spec2Model ----
(***************************************************************************)
(* go-yobit: the nonce file, the per-client mutex, request signing and the *)
(* response handling of the Yobit client, as a state machine.              *)
(*                                                                         *)
(* One process runs goroutines that make API calls.  A private call takes  *)
(* the client's mutex, reads data/nonce, increments, writes it back,       *)
(* unlocks, signs the form and posts it.  Errors end the process: a panic  *)
(* in the nonce code (after the deferred Unlock) or os.Exit(1) in fatal.   *)
(* The nonce file outlives the process; Restart starts a new process.      *)
(***************************************************************************)
EXTENDS Integers, Sequences, FiniteSets, TLC

\* ----------------------------------------------------------------- bounds
NumGoroutines == 2      \* API calls (one goroutine each) of one process
MaxRestarts == 1        \* process restarts
W == 4                  \* width of the nonce counter (uint64 in the source)

Goroutines == 1..NumGoroutines
Clients == 1..2
Modulus == 2^W
MaxUint == Modulus - 1

\* ------------------------------------------------------ decimal conversion
Digits == <<"0", "1", "2", "3", "4", "5", "6", "7", "8", "9">>

IsDigit(c) == \E i \in 1..10 : Digits[i] = c

DigitVal(c) == (CHOOSE i \in 1..10 : Digits[i] = c) - 1

\* strconv.FormatUint(n, 10): the decimal digits of n, most significant first
RECURSIVE FormatUint(_)
FormatUint(n) ==
    IF n < 10 THEN << Digits[n + 1] >>
    ELSE Append(FormatUint(n \div 10), Digits[(n % 10) + 1])

RECURSIVE DecimalValue(_)
DecimalValue(s) ==
    IF s = << >> THEN 0
    ELSE 10 * DecimalValue(SubSeq(s, 1, Len(s) - 1)) + DigitVal(s[Len(s)])

\* strconv.ParseUint(s, 10, 64): no sign, no blanks, at least one digit, and
\* the value must fit the width; otherwise an error.
ParseUint(s) ==
    IF s = << >> \/ \E i \in 1..Len(s) : ~IsDigit(s[i])
    THEN [err |-> TRUE, val |-> 0]
    ELSE IF DecimalValue(s) > MaxUint
         THEN [err |-> TRUE, val |-> MaxUint]
         ELSE [err |-> FALSE, val |-> DecimalValue(s)]

\* ------------------------------------------------------------- nonce file
\* data/nonce: whether it exists, its bytes, and whether it may be read
NoFile == [exists |-> FALSE, data |-> << >>, readable |-> TRUE]

FileOf(bytes) == [exists |-> TRUE, data |-> bytes, readable |-> TRUE]

\* os.Create: O_RDWR|O_CREATE|O_TRUNC, an empty file
CreatedFile(f) == [exists |-> TRUE, data |-> << >>, readable |-> f.readable]

\* ioutil.WriteFile, first half: OpenFile(O_WRONLY|O_CREATE|O_TRUNC)
TruncatedFile(f) == [exists |-> TRUE, data |-> << >>, readable |-> f.readable]

\* ioutil.WriteFile, second half: f.Write(data)
WrittenFile(f, bytes) == [f EXCEPT !.data = bytes]

\* the first contents CreateNonceFileIfNotExists writes
InitialNonceBytes == << "1" >>

\* *nonceOld = *nonceOld + 1 on a uint64
incrementNonceValue(n) == (n + 1) % Modulus

\* mutant: incrementNonce formats the value before adding one, so the
\* stored counter stays behind the returned nonce
NonceBytesStale(n) == FormatUint((n + Modulus - 1) % Modulus)

\* ns := strconv.FormatUint(*nonceOld, 10), the bytes incrementNonce writes
\* once *nonceOld holds n
NonceBytes(n) == FormatUint(n)

\* ------------------------------------------------------- form and signing
\* url.Values.Encode writes the keys in sorted order
KeyOrder == << "amount", "method", "nonce", "pair", "rate", "type" >>

\* form.Encode(): the (key, value) pairs of the form, sorted by key
Encode(form) ==
    LET keys == SelectSeq(KeyOrder, LAMBDA k : k \in DOMAIN form)
    IN  [i \in 1..Len(keys) |-> << keys[i], form[keys[i]] >>]

\* the value of key k in an encoded body, << >> when it is not there
BodyValue(body, k) ==
    IF \E i \in 1..Len(body) : body[i][1] = k
    THEN body[CHOOSE i \in 1..Len(body) : body[i][1] = k][2]
    ELSE << >>

\* hex(HMAC-SHA512(secret, message)): an ideal MAC, one digest per
\* (secret, message) pair
signHmacSha512(secret, message) ==
    [alg |-> "hmac-sha512", secret |-> secret, message |-> message]

\* ApiCredential of each client instance
Credential(c) ==
    IF c = 1 THEN [Key |-> "key1", Secret |-> "secret1"]
    ELSE [Key |-> "key2", Secret |-> "secret2"]

\* the handlers modelled: Trade stands for the Trade API handlers, which
\* differ in their arguments only, Tickers24 for the public ones
PrivateMethods == {"Trade"}
PublicMethods == {"Tickers24"}
Methods == PrivateMethods \cup PublicMethods

\* the CallArg list Trade passes to callPrivate (rate and amount formatted
\* with 8 fractional digits)
CallArgs(method) ==
    [pair |-> << "btc_usd" >>, type |-> << "buy" >>,
     rate |-> << "1.00000000" >>, amount |-> << "2.00000000" >>]

\* url.Values{"method": .., "nonce": ..} and form.Add for each argument
PrivateForm(method, nonce) ==
    LET base == [method |-> << method >>, nonce |-> FormatUint(nonce)]
        args == CallArgs(method)
    IN  [k \in DOMAIN base \cup DOMAIN args |->
            IF k \in DOMAIN args THEN args[k] ELSE base[k]]

\* mutant: callPrivate signs the form before the arguments are added
PrivateRequestSignedEarly(c, method, nonce) ==
    [verb |-> "POST", body |-> Encode(PrivateForm(method, nonce)),
     key |-> Credential(c).Key,
     sign |-> signHmacSha512(Credential(c).Secret,
                             Encode([method |-> << method >>,
                                     nonce |-> FormatUint(nonce)]))]

\* the POST request callPrivate hands to query: the body is the encoded
\* form, Sign is the digest of that same encoding
PrivateRequest(c, method, nonce) ==
    LET encode == Encode(PrivateForm(method, nonce))
    IN  [verb |-> "POST", body |-> encode, key |-> Credential(c).Key,
         sign |-> signHmacSha512(Credential(c).Secret, encode)]

\* a request without a Sign header
NoSign == [alg |-> "none", secret |-> "", message |-> << >>]

\* the GET request callPublic hands to query
PublicRequest == [verb |-> "GET", body |-> << >>, key |-> "", sign |-> NoSign]

\* ------------------------------------------------------------ responses
\* A JSON value of a response: absent, a number, a string, or an object
\* whose members fit ("good") or do not fit ("bad") the struct they go to.
JAbsent == [kind |-> "absent", num |-> 0, str |-> ""]
JNum(n) == [kind |-> "number", num |-> n, str |-> ""]
JStr(s) == [kind |-> "string", num |-> 0, str |-> s]
JObj(fit) == [kind |-> "object", num |-> 0, str |-> fit]

\* A response body: its text, what its top level is ("object", "array",
\* "null", "invalid" for bytes that are no JSON), and the members of a
\* top-level object (pair: a member named after a market, as in /ticker).
Doc(raw, top, success, error, return, pair) ==
    [raw |-> raw, top |-> top,
     members |-> [success |-> success, error |-> error,
                  return |-> return, pair |-> pair]]

NoDoc == Doc("", "null", JAbsent, JAbsent, JAbsent, JAbsent)

MemberNames == {"success", "error", "return", "pair"}

\* the bodies the exchange may answer with
Responses ==
    { Doc("{\"success\":1,\"return\":{}}", "object",
          JNum(1), JAbsent, JObj("good"), JAbsent),
      Doc("{\"success\":0,\"error\":\"invalid nonce\"}", "object",
          JNum(0), JStr("invalid nonce"), JAbsent, JAbsent),
      Doc("{\"btc_usd\":{}}", "object",
          JAbsent, JAbsent, JAbsent, JObj("good")),
      Doc("{\"btc_usd\":{\"high\":\"x\"}}", "object",
          JAbsent, JAbsent, JAbsent, JObj("bad")),
      Doc("{\"success\":1,\"return\":\"oops\"}", "object",
          JNum(1), JAbsent, JStr("oops"), JAbsent),
      Doc("{\"success\":300,\"error\":\"big\"}", "object",
          JNum(300), JStr("big"), JAbsent, JAbsent),
      Doc("{\"success\":0,\"error\":404}", "object",
          JNum(0), JNum(404), JAbsent, JAbsent),
      Doc("<html>", "invalid", JAbsent, JAbsent, JAbsent, JAbsent),
      Doc("[]", "array", JAbsent, JAbsent, JAbsent, JAbsent),
      Doc("null", "null", JAbsent, JAbsent, JAbsent, JAbsent) }

\* the struct a handler decodes into: the Trade API responses all hold
\* success uint8, error string and return; Tickers24 decodes into
\* map[string]Ticker; ErrorResponse holds success and error only
Targets == {"TradeAPI", "Tickers", "ErrorResponse"}

TargetOf(method) == IF method \in PublicMethods THEN "Tickers" ELSE "TradeAPI"

\* whether encoding/json stores member `name` with value v into the target
\* without an UnmarshalTypeError (a member the struct does not know is
\* skipped; every member of a map[string]Ticker must be a Ticker object)
FieldFits(target, name, v) ==
    IF target = "Tickers" THEN v.kind = "object" /\ v.str = "good"
    ELSE CASE name = "success" -> v.kind = "number" /\ v.num \in 0..255
           [] name = "error" -> v.kind = "string"
           [] name = "return" -> \/ target = "ErrorResponse"
                                 \/ v.kind = "object" /\ v.str = "good"
           [] OTHER -> TRUE

\* json.Unmarshal(data, obj): the error, and the Success and Error fields
\* obj holds afterwards (zero values where nothing was stored)
JsonUnmarshal(data, target) ==
    LET m == data.members
        fits == CASE data.top = "invalid" -> FALSE
                  [] data.top = "array" -> FALSE
                  [] data.top = "null" -> TRUE
                  [] OTHER -> \A n \in MemberNames :
                                 m[n].kind = "absent" \/ FieldFits(target, n, m[n])
        stored(n) == /\ data.top = "object" /\ target # "Tickers"
                     /\ m[n].kind # "absent" /\ FieldFits(target, n, m[n])
    IN  [err |-> ~fits,
         Success |-> IF stored("success") THEN m["success"].num ELSE 0,
         Error |-> IF stored("error") THEN m["error"].str ELSE ""]

\* an error value: nil, or a message (a sequence of text pieces)
NilError == [nil |-> TRUE, msg |-> << >>]
ErrorOf(msg) == [nil |-> FALSE, msg |-> msg]

\* mutant: unmarshal without the ErrorResponse fallback
unmarshalNoFallback(data, target) ==
    IF JsonUnmarshal(data, target).err
    THEN ErrorOf(<< "unmarshaling failed. ", data.raw, " ", "json error" >>)
    ELSE NilError

\* unmarshal(data, obj): decode; on failure try ErrorResponse and, when that
\* decodes, return the server's error text instead of the decode failure
unmarshal(data, target) ==
    LET r == JsonUnmarshal(data, target)
        r2 == JsonUnmarshal(data, "ErrorResponse")
    IN  IF r.err
        THEN IF ~r2.err
             THEN ErrorOf(<< r2.Error >>)
             ELSE ErrorOf(<< "unmarshaling failed. ", data.raw, " ", "json error" >>)
        ELSE NilError

\* ------------------------------------------------------------------ state
VARIABLES
    alive,      \* whether the process runs
    epoch,      \* how many times the process was restarted
    file,       \* data/nonce, which outlives the process
    mutex,      \* Yobit.mutex of each client: the goroutine holding it, or 0
    owner,      \* the client instance each goroutine calls
    gs,         \* each goroutine's position and locals
    returned,   \* log: the nonces GetAndIncrementNonce returned in this process
    sent,       \* log: the requests this process handed to client.Do, by call
    earlier     \* of the processes before this one: highest, the greatest nonce
                \* they returned (-1 if none); unsent, whether one of them was
                \* stopped holding a returned nonce it had not yet sent

vars == << alive, epoch, file, mutex, owner, gs, returned, sent, earlier >>

\* a goroutine that runs no API call
IdleG ==
    [pc |-> "idle", method |-> "", nonce |-> 0,
     wbuf |-> << >>, wret |-> "", resp |-> NoDoc, cause |-> "",
     err |-> NilError, nonceCnt |-> 0, reqCnt |-> 0, delivered |-> 0,
     entry |-> NoFile]

\* what data/nonce may hold when the first process starts: nothing, a
\* counter, or contents no counter can be read from
InitFiles ==
    { NoFile,
      FileOf(<< "1" >>),
      FileOf(<< "0", "2" >>),
      FileOf(<< >>),
      FileOf(<< "x" >>),
      FileOf(FormatUint(Modulus)),
      [exists |-> TRUE, data |-> << "1" >>, readable |-> FALSE] }

\* Yobit{...}: a zero mutex; nothing has been called
InitWith(files, owners) ==
    /\ alive = TRUE
    /\ epoch = 0
    /\ file \in files
    /\ mutex = [c \in Clients |-> 0]
    /\ owner \in owners
    /\ gs = [g \in Goroutines |-> IdleG]
    /\ returned = << >>
    /\ sent = {}
    /\ earlier = [highest |-> -1, unsent |-> FALSE]

\* one client instance, as yobit.New returns it
Init == InitWith(InitFiles, {[g \in Goroutines |-> 1]})

\* mutant: GetAndIncrementNonce without the Lock
MutexFreeAlways(c) == TRUE

\* y.mutex.Lock() goes through only while nobody holds the mutex
MutexFree(c) == mutex[c] = 0

\* mutant: GetAndIncrementNonce without the deferred Unlock
UnlockedNever(m, c) == m

\* defer y.mutex.Unlock(): the mutexes once client c's is released
Unlocked(m, c) == [m EXCEPT ![c] = 0]

\* The process ends: its memory (goroutines, mutexes) is gone.  What is kept
\* of a goroutine that panicked or called fatal is the record of its failure.
AfterExit(g_s) ==
    [h \in Goroutines |->
        IF g_s[h].pc \in {"panicked", "fatal"} THEN g_s[h] ELSE IdleG]

ProcessEnds(g_s) ==
    /\ alive' = FALSE
    /\ gs' = AfterExit(g_s)
    /\ mutex' = [c \in Clients |-> 0]

\* mutant: the Unlock is not deferred, so a panic leaves the mutex held
PanickedHoldingLock(g, cause) ==
    /\ gs' = [gs EXCEPT ![g].pc = "panicked", ![g].cause = cause]
    /\ UNCHANGED << alive, mutex >>

\* panic(...) in the nonce code: the deferred y.mutex.Unlock() runs and the
\* goroutine ends; nothing recovers the panic, so the runtime then ends the
\* process (Die)
Panicked(g, cause) ==
    /\ gs' = [gs EXCEPT ![g].pc = "panicked", ![g].cause = cause]
    /\ mutex' = Unlocked(mutex, owner[g])
    /\ UNCHANGED alive

\* mutant: the handler sends on the channel before it checks the error
fatalAfterSend(g, cause, e, d) ==
    ProcessEnds([gs EXCEPT ![g].pc = "fatal", ![g].cause = cause,
                           ![g].err = e, ![g].resp = d,
                           ![g].delivered = @ + 1])

\* fatal(v...): print and os.Exit(1); d is the body the handler had read
fatal(g, cause, e, d) ==
    ProcessEnds([gs EXCEPT ![g].pc = "fatal", ![g].cause = cause,
                           ![g].err = e, ![g].resp = d])

\* go y.GetInfo(ch), go y.Trade(..., ch), go y.Tickers24(..., ch): each API
\* call runs in a goroutine of its own; goroutine g is the g-th one the
\* process starts
StartCall(g) ==
    /\ alive
    /\ gs[g].pc = "idle"
    /\ \A h \in Goroutines : h < g => gs[h].pc # "idle"
    /\ \E m \in Methods :
          gs' = [gs EXCEPT ![g].pc = IF m \in PrivateMethods
                                     THEN "lock" ELSE "public",
                           ![g].method = m]
    /\ UNCHANGED << alive, epoch, file, mutex, owner, returned, sent, earlier >>

\* GetAndIncrementNonce: y.mutex.Lock()
Lock(g) ==
    /\ alive
    /\ gs[g].pc = "lock"
    /\ MutexFree(owner[g])
    /\ mutex' = [mutex EXCEPT ![owner[g]] = g]
    /\ gs' = [gs EXCEPT ![g].pc = "stat", ![g].entry = file]
    /\ UNCHANGED << alive, epoch, file, owner, returned, sent, earlier >>

\* CreateNonceFileIfNotExists: os.Stat
Stat(g) ==
    /\ alive
    /\ gs[g].pc = "stat"
    /\ gs' = [gs EXCEPT ![g].pc = IF file.exists THEN "read" ELSE "create"]
    /\ UNCHANGED << alive, epoch, file, mutex, owner, returned, sent, earlier >>

\* CreateNonceFileIfNotExists: os.Create, then WriteNonce("1")
Create(g) ==
    /\ alive
    /\ gs[g].pc = "create"
    /\ \/ /\ file' = CreatedFile(file)
          /\ gs' = [gs EXCEPT ![g].pc = "wopen", ![g].wbuf = InitialNonceBytes,
                              ![g].wret = "read"]
          /\ UNCHANGED mutex
       \/ /\ Panicked(g, "create")
          /\ UNCHANGED file
    /\ UNCHANGED << alive, epoch, owner, returned, sent, earlier >>

\* WriteNonce: ioutil.WriteFile opens the file truncating it
WriteOpen(g) ==
    /\ alive
    /\ gs[g].pc = "wopen"
    /\ \/ /\ file' = TruncatedFile(file)
          /\ gs' = [gs EXCEPT ![g].pc = "wwrite"]
          /\ UNCHANGED mutex
       \/ /\ Panicked(g, "write")
          /\ UNCHANGED file
    /\ UNCHANGED << alive, epoch, owner, returned, sent, earlier >>

\* WriteNonce: ioutil.WriteFile writes the bytes
WriteData(g) ==
    /\ alive
    /\ gs[g].pc = "wwrite"
    /\ \/ /\ file' = WrittenFile(file, gs[g].wbuf)
          /\ gs' = [gs EXCEPT ![g].pc = gs[g].wret]
          /\ UNCHANGED mutex
       \/ /\ Panicked(g, "write")
          /\ UNCHANGED file
    /\ UNCHANGED << alive, epoch, owner, returned, sent, earlier >>

\* readNonce: ioutil.ReadFile and strconv.ParseUint
ReadNonce(g) ==
    /\ alive
    /\ gs[g].pc = "read"
    /\ IF ~file.exists \/ ~file.readable
       THEN Panicked(g, "read")
       ELSE IF ParseUint(file.data).err
            THEN Panicked(g, "parse")
            ELSE /\ gs' = [gs EXCEPT ![g].pc = "incr",
                                     ![g].nonce = ParseUint(file.data).val]
                 /\ UNCHANGED mutex
    /\ UNCHANGED << alive, epoch, file, owner, returned, sent, earlier >>

\* incrementNonce: add one, format, WriteNonce
IncrementNonce(g) ==
    /\ alive
    /\ gs[g].pc = "incr"
    /\ gs' = [gs EXCEPT ![g].pc = "wopen",
                        ![g].nonce = incrementNonceValue(gs[g].nonce),
                        ![g].wbuf = NonceBytes(incrementNonceValue(gs[g].nonce)),
                        ![g].wret = "ret"]
    /\ UNCHANGED << alive, epoch, file, mutex, owner, returned, sent, earlier >>

\* GetAndIncrementNonce returns: the deferred Unlock, then the nonce
Return(g) ==
    /\ alive
    /\ gs[g].pc = "ret"
    /\ mutex' = Unlocked(mutex, owner[g])
    /\ returned' = Append(returned,
                          [g |-> g, client |-> owner[g],
                           epoch |-> epoch, nonce |-> gs[g].nonce])
    /\ gs' = [gs EXCEPT ![g].pc = "sign", ![g].nonceCnt = @ + 1]
    /\ UNCHANGED << alive, epoch, file, owner, sent, earlier >>

\* callPrivate after the nonce: form, Encode, sign, NewRequest, headers,
\* and y.query hands the request to client.Do
CallPrivate(g) ==
    /\ alive
    /\ gs[g].pc = "sign"
    /\ sent' = sent \cup
                {[g |-> g, client |-> owner[g], epoch |-> epoch,
                  req |-> PrivateRequest(owner[g], gs[g].method, gs[g].nonce)]}
    /\ gs' = [gs EXCEPT ![g].pc = "await", ![g].reqCnt = @ + 1]
    /\ UNCHANGED << alive, epoch, file, mutex, owner, returned, earlier >>

\* callPublic: NewRequest("GET", url) and y.query
CallPublic(g) ==
    /\ alive
    /\ gs[g].pc = "public"
    /\ sent' = sent \cup
                {[g |-> g, client |-> owner[g], epoch |-> epoch,
                  req |-> PublicRequest]}
    /\ gs' = [gs EXCEPT ![g].pc = "await", ![g].reqCnt = @ + 1]
    /\ UNCHANGED << alive, epoch, file, mutex, owner, returned, earlier >>

\* the handler once client.Do has answered.  query: a failed Do or another
\* status than 200 is fatal.  Otherwise the handler unmarshals the body,
\* the Trade API handlers check Success, and the response goes to ch.
HandleResponse(g) ==
    /\ alive
    /\ gs[g].pc = "await"
    /\ \/ fatal(g, "network", ErrorOf(<< "Do: ", "network error" >>), NoDoc)
       \/ fatal(g, "status",
                ErrorOf(<< "Something goes wrong. HTTP", "500" >>), NoDoc)
       \/ \E d \in Responses :
             LET target == TargetOf(gs[g].method)
                 e == unmarshal(d, target)
                 v == JsonUnmarshal(d, target)
             IN  IF ~e.nil
                 THEN fatal(g, "unmarshal", e, d)
                 ELSE IF gs[g].method \in PrivateMethods /\ v.Success = 0
                      THEN fatal(g, "success0", ErrorOf(<< v.Error >>), d)
                      ELSE /\ gs' = [gs EXCEPT ![g].pc = "done", ![g].resp = d,
                                               ![g].delivered = @ + 1]
                           /\ UNCHANGED << alive, mutex >>
    /\ UNCHANGED << epoch, file, owner, returned, sent, earlier >>

\* the runtime ends the process after an unrecovered panic
Die ==
    /\ alive
    /\ \E g \in Goroutines : gs[g].pc = "panicked"
    /\ ProcessEnds(gs)
    /\ UNCHANGED << epoch, file, owner, returned, sent, earlier >>

\* the process is stopped from outside, wherever its goroutines are
Crash ==
    /\ alive
    /\ ProcessEnds(gs)
    /\ UNCHANGED << epoch, file, owner, returned, sent, earlier >>

\* the greatest element of a non-empty set of integers
Max(S) == CHOOSE x \in S : \A y \in S : y <= x

\* a new process against the same data/nonce: yobit.New again
Restart ==
    /\ ~alive
    /\ epoch < MaxRestarts
    /\ alive' = TRUE
    /\ epoch' = epoch + 1
    /\ mutex' = [c \in Clients |-> 0]
    /\ gs' = [g \in Goroutines |-> IdleG]
    /\ earlier' =
          [highest |-> Max({earlier.highest} \cup
                           {returned[i].nonce : i \in 1..Len(returned)}),
           unsent |-> \/ earlier.unsent
                      \/ \E i \in 1..Len(returned) :
                            \A r \in sent : r.g # returned[i].g]
    /\ returned' = << >>
    /\ sent' = {}
    /\ UNCHANGED << file, owner >>

Next ==
    \/ \E g \in Goroutines :
          \/ StartCall(g) \/ Lock(g) \/ Stat(g) \/ Create(g)
          \/ WriteOpen(g) \/ WriteData(g) \/ ReadNonce(g)
          \/ IncrementNonce(g) \/ Return(g) \/ CallPrivate(g)
          \/ CallPublic(g) \/ HandleResponse(g)
    \/ Die
    \/ Crash
    \/ Restart

Spec == Init /\ [][Next]_vars

\* two client instances in one process, each with its own mutex and
\* credential, against the one data/nonce
InitTwo == InitWith(InitFiles, {[g \in Goroutines |-> ((g - 1) % 2) + 1]})

SpecTwo == InitTwo /\ [][Next]_vars

\* one client instance; data/nonce may hold any value of the counter
InitWide ==
    InitWith(InitFiles \cup {FileOf(FormatUint(v)) : v \in 0..MaxUint},
             {[g \in Goroutines |-> 1]})

SpecWide == InitWide /\ [][Next]_vars

\* what data/nonce holds when the code itself has kept it: nothing before
\* the first use, a counter afterwards
SoundFiles == { NoFile, FileOf(<< "1" >>), FileOf(<< "0", "2" >>) }

\* one client instance; data/nonce is absent or holds a counter
InitSound == InitWith(SoundFiles, {[g \in Goroutines |-> 1]})

SpecSound == InitSound /\ [][Next]_vars

\* ----------------------------------------------------------------- claims
\* the counter data/nonce held when goroutine g entered
\* GetAndIncrementNonce (1, the initial value, when there was no file)
StoredAtEntry(g) ==
    IF gs[g].entry.exists THEN ParseUint(gs[g].entry.data).val ELSE 1

\* goroutine g's GetAndIncrementNonce has returned its nonce
HasNonce(g) == gs[g].nonceCnt > 0

\* the positions of GetAndIncrementNonce between Lock and Unlock
CriticalSection == {"stat", "create", "wopen", "wwrite", "read", "incr", "ret"}

\* C1: the GetAndIncrementNonce calls goroutines make concurrently on one
\* client are serialized (at most one goroutine is between Lock and Unlock)
\* and never return the same nonce twice: the returned values are pairwise
\* different, so sorted they increase strictly.
C1_NoDuplicateNonce ==
    /\ Cardinality({g \in Goroutines : gs[g].pc \in CriticalSection}) <= 1
    /\ \A i, j \in 1..Len(returned) :
          i # j => returned[i].nonce # returned[j].nonce
    /\ Cardinality({returned[i].nonce : i \in 1..Len(returned)}) = Len(returned)

\* two calls overlapped (the goroutine started second returned first) and
\* both have their nonce
C1_Witness ==
    /\ Len(returned) >= 2
    /\ returned[1].g > returned[2].g

\* C2: every nonce returned after a restart is greater than every nonce
\* returned by the processes before it, wherever those were stopped.
C2_GreaterAfterRestart ==
    \A i \in 1..Len(returned) : returned[i].nonce > earlier.highest

\* an earlier process returned a nonce and was stopped before the request
\* carrying it went out, and the restarted process has returned a nonce
C2_Witness ==
    /\ epoch >= 1
    /\ earlier.highest >= 1
    /\ earlier.unsent
    /\ Len(returned) >= 1

\* C3: a call returns the value stored before it and stores that value plus
\* one; with no storage at the start (initialised to 1) the first call
\* returns 1 and the second returns 2.
C3_ReturnsStoredValue ==
    \A i \in 1..Len(returned) :
       LET g == returned[i].g
       IN  HasNonce(g) =>
              /\ returned[i].nonce = StoredAtEntry(g)
              /\ file.exists /\ ~ParseUint(file.data).err
                    => ParseUint(file.data).val >= StoredAtEntry(g) + 1
              /\ ~gs[g].entry.exists =>
                    /\ returned[i].nonce = 1
                    /\ Len(returned) >= 2 => returned[2].nonce = 2

\* the POST requests this process has sent
SentPrivate == {s \in sent : s.req.verb = "POST"}

\* C4: the nonce in a transmitted body is the value the call got from
\* GetAndIncrementNonce, Sign is the digest of exactly the transmitted
\* body under the client's secret, and two authenticated calls of one
\* client differ in nonce, body and signature.
C4_SignedBodyCarriesNonce ==
    /\ \A s \in SentPrivate :
          /\ \E i \in 1..Len(returned) :
                /\ returned[i].g = s.g
                /\ BodyValue(s.req.body, "nonce") = FormatUint(returned[i].nonce)
                /\ ParseUint(BodyValue(s.req.body, "nonce")).val = returned[i].nonce
          /\ \A i \in 1..Len(returned) :
                returned[i].g = s.g =>
                   BodyValue(s.req.body, "nonce") = FormatUint(returned[i].nonce)
          /\ s.req.sign.message = s.req.body
          /\ s.req.sign = signHmacSha512(Credential(s.client).Secret, s.req.body)
          /\ s.req.key = Credential(s.client).Key
    /\ \A s, t \in SentPrivate :
          s.g # t.g /\ s.client = t.client =>
             /\ BodyValue(s.req.body, "nonce") # BodyValue(t.req.body, "nonce")
             /\ s.req.body # t.req.body
             /\ s.req.sign # t.req.sign

\* two authenticated calls with the same method and arguments went out
C4_Witness ==
    \E s, t \in SentPrivate :
       /\ s.g # t.g
       /\ s.client = t.client
       /\ BodyValue(s.req.body, "method") = BodyValue(t.req.body, "method")
       /\ BodyValue(s.req.body, "amount") = BodyValue(t.req.body, "amount")

\* goroutine g's GetAndIncrementNonce failed reading the nonce
ReadFailed(g) == gs[g].pc = "panicked" /\ gs[g].cause \in {"read", "parse"}

\* C5: when data/nonce cannot be read or holds no unsigned decimal number,
\* GetAndIncrementNonce returns no nonce, leaves the file as it was, has
\* released the mutex, and the call sends no request and delivers nothing.
C5_ReadFailureAborts ==
    \A g \in Goroutines :
       ReadFailed(g) =>
          /\ gs[g].nonceCnt = 0
          /\ \A i \in 1..Len(returned) : returned[i].g # g
          /\ file = gs[g].entry
          /\ mutex[owner[g]] # g
          /\ gs[g].reqCnt = 0
          /\ \A s \in sent : s.g # g
          /\ gs[g].delivered = 0

\* a call found contents that are no number, another a file it may not read
C5_Witness ==
    \E g \in Goroutines :
       /\ ReadFailed(g)
       /\ gs[g].cause = "parse"
       /\ gs[g].entry.exists
       /\ gs[g].entry.data # << >>

\* C6: over the whole range of the counter, the maximum included, every
\* returned nonce is greater than the stored value it was read from (the
\* nonce returned before it), than every nonce returned earlier in the
\* process, and than every nonce earlier processes returned.
C6_IncreasingOverWholeRange ==
    /\ \A g \in Goroutines : HasNonce(g) => gs[g].nonce > StoredAtEntry(g)
    /\ \A i, j \in 1..Len(returned) :
          i < j => returned[i].nonce < returned[j].nonce
    /\ \A i \in 1..Len(returned) : returned[i].nonce > earlier.highest

\* the API call of goroutine g ended in an error
Failed(g) == gs[g].pc \in {"panicked", "fatal"}

\* what data/nonce holds is a counter
FileIsCounter == file.exists /\ ~ParseUint(file.data).err

\* C7: an error of any of the three classes ends the call: the failed call
\* has sent nothing on the channel, fatal has ended the process, no call
\* got more than one nonce or issued more than one request, a request of a
\* Trade API call went out with exactly one nonce, and a call that failed
\* after its nonce was issued has the counter advanced by one.
C7_ErrorsAreTerminal ==
    \A g \in Goroutines :
       /\ Failed(g) => gs[g].delivered = 0
       /\ gs[g].pc = "fatal" => ~alive
       /\ gs[g].nonceCnt <= 1
       /\ gs[g].reqCnt <= 1
       /\ Cardinality({i \in 1..Len(returned) : returned[i].g = g}) = gs[g].nonceCnt
             \/ ~alive
       /\ gs[g].reqCnt = 1 /\ gs[g].method \in PrivateMethods => gs[g].nonceCnt = 1
       /\ gs[g].method \in PublicMethods => gs[g].nonceCnt = 0
       /\ Failed(g) /\ gs[g].nonceCnt = 1 =>
             /\ gs[g].nonce = StoredAtEntry(g) + 1
             /\ FileIsCounter => ParseUint(file.data).val >= gs[g].nonce

\* calls have failed in each class after the nonce was issued or, for the
\* storage class, before
C7_Witness ==
    \E g \in Goroutines :
       /\ gs[g].pc = "fatal"
       /\ gs[g].cause = "success0"
       /\ gs[g].nonceCnt = 1
       /\ gs[g].reqCnt = 1
       /\ FileIsCounter
       /\ ParseUint(file.data).val = StoredAtEntry(g) + 1

\* the error text a response body carries ("" when it carries none)
ServerErrorText(d) ==
    IF d.top = "object" /\ d.members["error"].kind = "string"
    THEN d.members["error"].str ELSE ""

\* the handler of goroutine g has run unmarshal on a response body
Unmarshalled(g) ==
    \/ gs[g].pc = "done"
    \/ gs[g].pc = "fatal" /\ gs[g].cause \in {"unmarshal", "success0"}

\* C8: bytes that do not decode into the target but do decode as the
\* {success, error} shape give an error whose message is the server's
\* error text; bytes that decode as neither give the decode failure; bytes
\* that decode into the target give no error.
C8_FallbackGivesServerText ==
    \A g \in Goroutines :
       Unmarshalled(g) =>
          LET d == gs[g].resp
              targetFails == JsonUnmarshal(d, TargetOf(gs[g].method)).err
              minimalFails == JsonUnmarshal(d, "ErrorResponse").err
              unmarshalFailed == gs[g].pc = "fatal" /\ gs[g].cause = "unmarshal"
          IN  /\ targetFails /\ ~minimalFails =>
                 /\ unmarshalFailed
                 /\ gs[g].err.msg = << ServerErrorText(d) >>
              /\ targetFails /\ minimalFails =>
                 /\ unmarshalFailed
                 /\ Len(gs[g].err.msg) = 4
                 /\ gs[g].err.msg[1] = "unmarshaling failed. "
                 /\ gs[g].err.msg[2] = d.raw
              /\ ~targetFails => ~unmarshalFailed
              /\ d.raw = "{\"success\":0,\"error\":\"invalid nonce\"}" =>
                 /\ gs[g].pc = "fatal"
                 /\ gs[g].err.msg = << "invalid nonce" >>

\* {"success":0,"error":"invalid nonce"} came where a ticker map was
\* expected, and unmarshal gave the error "invalid nonce"
C8_Witness ==
    \E g \in Goroutines :
       /\ gs[g].pc = "fatal"
       /\ gs[g].cause = "unmarshal"
       /\ gs[g].resp.raw = "{\"success\":0,\"error\":\"invalid nonce\"}"
       /\ JsonUnmarshal(gs[g].resp, TargetOf(gs[g].method)).err
       /\ gs[g].err.msg = << "invalid nonce" >>

\* C9: the mutex is held only inside the read-increment-write sequence: its
\* holder is a goroutine of that client inside GetAndIncrementNonce, and a
\* goroutine that is building or awaiting its HTTP request, or whose call
\* has finished or failed, does not hold it.
C9_MutexOnlyAroundNonce ==
    /\ \A c \in Clients :
          mutex[c] # 0 =>
             /\ mutex[c] \in Goroutines
             /\ owner[mutex[c]] = c
             /\ gs[mutex[c]].pc \in CriticalSection
    /\ \A g \in Goroutines :
          gs[g].pc \in CriticalSection <=> mutex[owner[g]] = g

\* one call awaits its HTTP response while a later call holds the mutex
C9_Witness ==
    \E g, h \in Goroutines :
       /\ gs[g].pc = "await"
       /\ gs[g].method \in PrivateMethods
       /\ mutex[owner[h]] = h
       /\ gs[h].pc = "wwrite"

\* C10: two client instances calling GetAndIncrementNonce concurrently
\* against the one data/nonce never get the same nonce twice, and each
\* instance gets strictly increasing nonces in the order of its calls.
C10_TwoClientsNoDuplicate ==
    /\ \A i, j \in 1..Len(returned) :
          i # j => returned[i].nonce # returned[j].nonce
    /\ \A i, j \in 1..Len(returned) :
          i < j /\ returned[i].client = returned[j].client
             => returned[i].nonce < returned[j].nonce

\* C11: wherever the first process is stopped from outside, no call of it
\* having failed, a data/nonce that exists holds a valid decimal counter
\* (so the next process can read it): also when the stop comes between
\* os.Create and the write of the initial 1, or between the truncation of
\* ioutil.WriteFile and its write of the new value.
C11_StoppedFileIsCounter ==
    /\ epoch = 0
    /\ ~alive
    /\ \A g \in Goroutines : ~Failed(g)
    /\ file.exists
    => FileIsCounter

====
